---------------------------- MODULE Spec2Model ----------------------------
(***************************************************************************)
(* A model of make_cards_pdf.py: the grid layout (positions_grid), the     *)
(* image set resolver (list_images, match_pairs) and the page emission     *)
(* loop of main.                                                           *)
(*                                                                         *)
(* Lengths.  The code computes in floating-point points.  The model takes  *)
(* lengths as integers in units of 1e-6 pt, so that the tolerance 1e-6 of  *)
(* the feasibility check is exactly one unit (Tol).  The two centering     *)
(* terms divide by 2.0; every coordinate the layout produces is therefore  *)
(* stored DOUBLED (names ending in 2 hold twice the value), which keeps    *)
(* the halves exact.  Rounding error of the float arithmetic is not        *)
(* modelled.                                                               *)
(***************************************************************************)
EXTENDS Integers, Sequences, FiniteSets, TLC

VARIABLES
    gargs,      \* grid harness: the twelve arguments of positions_grid
    gres,       \* grid harness: outcome of the last positions_grid call
    mfolders,   \* match harness: entries of the fronts and the backs folder
    mmode,      \* match harness: the mode argument of match_pairs
    mfronts,    \* match harness: list_images(fronts folder)
    mbacks,     \* match harness: list_images(backs folder)
    mres,       \* match harness: outcome of match_pairs
    mpc,        \* match harness: "list", "match" or "done"
    args,       \* main: the parsed command line
    pc,         \* main: the statement main is at, "done" or "failed"
    isdir,      \* main: what is_dir() answered for <<fronts_dir, backs_dir>>
    fronts,     \* main: list_images(fronts_dir)
    backs,      \* main: list_images(backs_dir)
    pairs,      \* main: match_pairs(fronts, backs, args.match)
    slots,      \* main: positions_grid(...), doubled coordinates
    canvas,     \* main: the reportlab canvas c
    start,      \* main: loop variable of the batch loop
    batch,      \* main: pairs[start:start + per_page]
    drawn,      \* main: loop variable i of the two enumerate(batch) loops
    err         \* main: the exception that ended the run, "" for none

gvars == <<gargs, gres>>
mvars == <<mfolders, mmode, mfronts, mbacks, mres, mpc>>
pvars == <<args, pc, isdir, fronts, backs, pairs, slots, canvas, start,
           batch, drawn, err>>
vars == <<gvars, mvars, pvars>>

----------------------------------------------------------------------------
(* Bounds of the grid harness *)

MaxCard == 2
MaxGrid == 2
PageSizes == {4, 5}
Margins == {0 - 1, 0, 1}
Gaps == {0 - 1, 0, 1}

(* Bounds of main's command line *)
MaxCols == 3
MaxRows == 2

(* the absolute tolerance 1e-6 of the feasibility check, in model units *)
Tol == 1

----------------------------------------------------------------------------
(* positions_grid *)

usable_extent(page, margin_a, margin_b) == page - margin_a - margin_b

need_extent(n, card, gap) == n * card + (n - 1) * gap

(* faulty variant: the tolerance is dropped from the comparison *)
overflows_no_tolerance(need_w, usable_w, need_h, usable_h) ==
    need_w > usable_w \/ need_h > usable_h

overflows(need_w, usable_w, need_h, usable_h) ==
    need_w > usable_w + Tol \/ need_h > usable_h + Tol

(* twice start_x = margin_left + (usable_w - need_w) / 2.0 *)
start_x2(margin_left, usable_w, need_w) ==
    2 * margin_left + (usable_w - need_w)

(* faulty variant: the block hangs from the top margin line, not centered *)
start_y_top2_uncentered(page_h, margin_top, usable_h, need_h) ==
    2 * (page_h - margin_top)

(* twice start_y_top = page_h - margin_top - (usable_h - need_h) / 2.0 *)
start_y_top2(page_h, margin_top, usable_h, need_h) ==
    2 * (page_h - margin_top) - (usable_h - need_h)

(* faulty variant: the column pitch forgets the card width *)
slot_x2_gap_only(sx2, col, card_w, gap_x) == sx2 + 2 * (col * gap_x)

(* twice x = start_x + col * (card_w + gap_x) *)
slot_x2(sx2, col, card_w, gap_x) == sx2 + 2 * (col * (card_w + gap_x))

(* faulty variant: the top edge of the row is returned instead of the lower-left y *)
slot_y2_top_edge(syt2, r, card_h, gap_y) ==
    syt2 - 2 * (r * (card_h + gap_y))

(* twice y = (start_y_top - r * (card_h + gap_y)) - card_h *)
slot_y2(syt2, r, card_h, gap_y) ==
    LET y_top_of_row2 == syt2 - 2 * (r * (card_h + gap_y))
    IN  y_top_of_row2 - 2 * card_h

(* for col in range(cols): ... pos.append((x, y)) *)
RECURSIVE col_loop(_, _, _, _)
col_loop(L, r, col, pos) ==
    IF col >= L.cols THEN pos
    ELSE col_loop(L, r, col + 1,
                  Append(pos, <<slot_x2(L.sx2, col, L.card_w, L.gap_x),
                                slot_y2(L.syt2, r, L.card_h, L.gap_y)>>))

(* for r in range(rows): for col in range(cols): ... *)
RECURSIVE row_loop(_, _, _)
row_loop(L, r, pos) ==
    IF r >= L.rows THEN pos
    ELSE row_loop(L, r + 1, col_loop(L, r, 0, pos))

positions_grid(page_w, page_h, card_w, card_h, cols, rows, margin_left, margin_right, margin_top, margin_bottom, gap_x, gap_y) ==
    LET usable_w == usable_extent(page_w, margin_left, margin_right)
        usable_h == usable_extent(page_h, margin_top, margin_bottom)
        need_w == need_extent(cols, card_w, gap_x)
        need_h == need_extent(rows, card_h, gap_y)
    IN  IF overflows(need_w, usable_w, need_h, usable_h)
        THEN [kind |-> "error", err |-> "LayoutOverflow", pos |-> <<>>,
              need |-> <<need_w, need_h>>, usable |-> <<usable_w, usable_h>>]
        ELSE [kind |-> "slots", err |-> "",
              pos |-> row_loop(
                  [cols |-> cols, rows |-> rows,
                   card_w |-> card_w, card_h |-> card_h,
                   gap_x |-> gap_x, gap_y |-> gap_y,
                   sx2 |-> start_x2(margin_left, usable_w, need_w),
                   syt2 |-> start_y_top2(page_h, margin_top,
                                         usable_h, need_h)],
                  0, <<>>),
              need |-> <<need_w, need_h>>, usable |-> <<usable_w, usable_h>>]

----------------------------------------------------------------------------
(* Paths.  A directory entry is [stem, suffix, is_file]; stem and suffix    *)
(* are strings written as sequences of character codes, as pathlib splits   *)
(* the name: name = stem \o suffix.  A folder is [path, entries], and the   *)
(* Path of an entry of a folder is the entry with the folder's path (dir).  *)

JPG == <<46, 106, 112, 103>>          \* ".jpg"
JPG_UPPER == <<46, 74, 80, 71>>       \* ".JPG"
JPEG == <<46, 106, 112, 101, 103>>    \* ".jpeg"
PNG == <<46, 112, 110, 103>>          \* ".png"
TXT == <<46, 116, 120, 116>>          \* ".txt"

E_2_jpg == [stem |-> <<50>>, suffix |-> JPG, is_file |-> TRUE]
E_10_JPG == [stem |-> <<49, 48>>, suffix |-> JPG_UPPER, is_file |-> TRUE]
E_a_jpg == [stem |-> <<97>>, suffix |-> JPG, is_file |-> TRUE]
E_a_png == [stem |-> <<97>>, suffix |-> PNG, is_file |-> TRUE]
E_r_txt == [stem |-> <<114>>, suffix |-> TXT, is_file |-> TRUE]
E_d_png == [stem |-> <<100>>, suffix |-> PNG, is_file |-> FALSE]  \* a folder

(* the entries a folder of the model may hold *)
Entries == {E_2_jpg, E_10_JPG, E_a_jpg, E_a_png, E_r_txt, E_d_png}

FolderPaths == {"fronts", "backs"}

Folder(path, entries) == [path |-> path, entries |-> entries]

(* folder.iterdir() *)
iterdir(folder) ==
    {[dir |-> folder.path, stem |-> e.stem, suffix |-> e.suffix,
      is_file |-> e.is_file] : e \in folder.entries}

Paths == UNION {iterdir(Folder(d, Entries)) : d \in FolderPaths}

path_name(p) == p.stem \o p.suffix

(* str.lower() on ASCII *)
lower(s) == [k \in 1..Len(s) |-> IF s[k] \in 65..90 THEN s[k] + 32 ELSE s[k]]

ZFillWidth == 32

(* str.zfill(width): zeros on the left, after a leading sign *)
zfill(s, width) ==
    LET zeros == [k \in 1..(width - Len(s)) |-> 48]
    IN  IF Len(s) >= width THEN s
        ELSE IF Len(s) > 0 /\ s[1] \in {43, 45}
             THEN <<s[1]>> \o zeros \o Tail(s)
             ELSE zeros \o s

(* Python's < on strings: lexicographic by character code *)
RECURSIVE str_lt_from(_, _, _)
str_lt_from(a, b, k) ==
    IF k > Len(b) THEN FALSE
    ELSE IF k > Len(a) THEN TRUE
    ELSE IF a[k] # b[k] THEN a[k] < b[k]
    ELSE str_lt_from(a, b, k + 1)

str_lt(a, b) == str_lt_from(a, b, 1)

sort_key(p) == <<zfill(p.stem, ZFillWidth), lower(path_name(p))>>

(* Python's < on the key tuples *)
key_lt(k1, k2) ==
    IF k1[1] # k2[1] THEN str_lt(k1[1], k2[1]) ELSE str_lt(k1[2], k2[2])

(* for each path of the model, the paths whose key is greater *)
SortsBefore ==
    [p \in Paths |-> {q \in Paths : key_lt(sort_key(p), sort_key(q))}]

(* sorted(files, key=sort_key).  The entries of one folder have distinct    *)
(* names; the entries of the model also have distinct keys, so the result   *)
(* does not depend on the order iterdir yields them in.                     *)
RECURSIVE sorted(_)
sorted(files) ==
    IF files = {} THEN <<>>
    ELSE LET first == CHOOSE p \in files : files \ {p} \subseteq SortsBefore[p]
         IN  <<first>> \o sorted(files \ {first})

exts == {JPG, JPEG, PNG}

list_images(folder) ==
    sorted({p \in iterdir(folder) : p.is_file /\ lower(p.suffix) \in exts})

----------------------------------------------------------------------------
(* match_pairs *)

NoPath == [dir |-> "", stem |-> <<>>, suffix |-> <<>>, is_file |-> FALSE]

(* back_map = {b.stem: b for b in backs}: a later back replaces an earlier  *)
(* one of the same stem.  The dict is a set of <<key, value>> entries.      *)
RECURSIVE build_back_map(_, _, _)
build_back_map(back_list, k, back_map) ==
    IF k > Len(back_list) THEN back_map
    ELSE build_back_map(back_list, k + 1,
             {e \in back_map : e[1] # back_list[k].stem}
                 \cup {<<back_list[k].stem, back_list[k]>>})

(* back_map.get(stem): the value, or None (NoPath) *)
map_get(back_map, stem) ==
    IF \E e \in back_map : e[1] = stem
    THEN (CHOOSE e \in back_map : e[1] = stem)[2]
    ELSE NoPath

(* faulty variant: the loop stops at the first front without a back *)
RECURSIVE by_name_loop_first_missing(_, _, _, _, _)
by_name_loop_first_missing(front_list, back_map, k, acc, missing) ==
    IF k > Len(front_list) \/ missing # <<>> THEN <<acc, missing>>
    ELSE LET b == map_get(back_map, front_list[k].stem)
         IN  IF b = NoPath
             THEN by_name_loop_first_missing(front_list, back_map, k + 1, acc,
                      Append(missing, path_name(front_list[k])))
             ELSE by_name_loop_first_missing(front_list, back_map, k + 1,
                      Append(acc, <<front_list[k], b>>), missing)

(* for f in fronts: ... missing.append(f.name) / pairs.append((f, b)) *)
RECURSIVE by_name_loop(_, _, _, _, _)
by_name_loop(front_list, back_map, k, acc, missing) ==
    IF k > Len(front_list) THEN <<acc, missing>>
    ELSE LET b == map_get(back_map, front_list[k].stem)
         IN  IF b = NoPath
             THEN by_name_loop(front_list, back_map, k + 1, acc,
                               Append(missing, path_name(front_list[k])))
             ELSE by_name_loop(front_list, back_map, k + 1,
                               Append(acc, <<front_list[k], b>>), missing)

(* faulty variant: only a surplus of front_list is reported *)
counts_differ_more_fronts(nf, nb) == nf > nb

(* len(fronts) != len(backs) *)
counts_differ(nf, nb) == nf # nb

(* list(zip(fronts, backs)): as long as the shorter list *)
zip(front_list, back_list) ==
    LET n == IF Len(front_list) < Len(back_list)
             THEN Len(front_list) ELSE Len(back_list)
    IN  [k \in 1..n |-> <<front_list[k], back_list[k]>>]

MatchError(e, missing, counts) ==
    [kind |-> "error", err |-> e, pairs |-> <<>>,
     missing |-> missing, counts |-> counts]

MatchOk(pair_list) ==
    [kind |-> "pairs", err |-> "", pairs |-> pair_list,
     missing |-> <<>>, counts |-> <<>>]

match_pairs(front_list, back_list, mode) ==
    IF mode = "by_name"
    THEN LET back_map == build_back_map(back_list, 1, {})
             out == by_name_loop(front_list, back_map, 1, <<>>, <<>>)
         IN  IF out[2] # <<>>
             THEN MatchError("MissingBackImages", out[2], <<>>)
             ELSE MatchOk(out[1])
    ELSE IF counts_differ(Len(front_list), Len(back_list))
         THEN MatchError("CountMismatch", <<>>,
                         <<Len(front_list), Len(back_list)>>)
         ELSE MatchOk(zip(front_list, back_list))

----------------------------------------------------------------------------
(* Match harness: two folders are listed, then the lists are matched.       *)

Modes == {"by_name", "by_order"}

NoMatch ==
    [kind |-> "none", err |-> "", pairs |-> <<>>,
     missing |-> <<>>, counts |-> <<>>]

MInit ==
    /\ mfolders \in [fronts : SUBSET Entries, backs : SUBSET Entries]
    /\ mmode \in Modes
    /\ mfronts = <<>>
    /\ mbacks = <<>>
    /\ mres = NoMatch
    /\ mpc = "list"

MList ==
    /\ mpc = "list"
    /\ mfronts' = list_images(Folder("fronts", mfolders.fronts))
    /\ mbacks' = list_images(Folder("backs", mfolders.backs))
    /\ mpc' = "match"
    /\ UNCHANGED <<mfolders, mmode, mres, gvars, pvars>>

MMatch ==
    /\ mpc = "match"
    /\ mres' = match_pairs(mfronts, mbacks, mmode)
    /\ mpc' = "done"
    /\ UNCHANGED <<mfolders, mmode, mfronts, mbacks, gvars, pvars>>

MNext == MList \/ MMatch

----------------------------------------------------------------------------
(* Grid harness: a caller that picks arguments, calls positions_grid, then  *)
(* moves one margin, gap or card dimension by one unit and calls again.     *)

GridArgs ==
    [page_w : PageSizes, page_h : PageSizes,
     card_w : 1..MaxCard, card_h : 1..MaxCard,
     cols : 1..MaxGrid, rows : 1..MaxGrid,
     margin_left : Margins, margin_right : Margins,
     margin_top : Margins, margin_bottom : Margins,
     gap_x : Gaps, gap_y : Gaps]

AdjustParams ==
    {"card_w", "card_h", "margin_left", "margin_right",
     "margin_top", "margin_bottom", "gap_x", "gap_y"}

NoResult ==
    [kind |-> "none", err |-> "", pos |-> <<>>,
     need |-> <<0, 0>>, usable |-> <<0, 0>>]

call_grid(a) ==
    positions_grid(a.page_w, a.page_h, a.card_w, a.card_h, a.cols, a.rows,
                   a.margin_left, a.margin_right, a.margin_top,
                   a.margin_bottom, a.gap_x, a.gap_y)

GInit ==
    /\ gargs \in GridArgs
    /\ gres = NoResult

GCall ==
    /\ gres.kind = "none"
    /\ gres' = call_grid(gargs)
    /\ UNCHANGED <<gargs, mvars, pvars>>

GIncrease ==
    /\ gres.kind # "none"
    /\ \E p \in AdjustParams :
        /\ [gargs EXCEPT ![p] = @ + 1] \in GridArgs
        /\ gargs' = [gargs EXCEPT ![p] = @ + 1]
    /\ gres' = call_grid(gargs')
    /\ UNCHANGED <<mvars, pvars>>

GDecrease ==
    /\ gres.kind # "none"
    /\ \E p \in AdjustParams :
        /\ [gargs EXCEPT ![p] = @ - 1] \in GridArgs
        /\ gargs' = [gargs EXCEPT ![p] = @ - 1]
    /\ gres' = call_grid(gargs')
    /\ UNCHANGED <<mvars, pvars>>

GNext == GCall \/ GIncrease \/ GDecrease


----------------------------------------------------------------------------
(* main *)

MM_TO_PT == 2834646         \* 72.0 / 25.4 pt per mm, in units of 1e-6 pt

mm(x) == x * MM_TO_PT

A4_W_MM == 210
A4_H_MM == 297

(* reportlab.lib.pagesizes.A4 = (210 * mm, 297 * mm) *)
A4 == <<mm(A4_W_MM), mm(A4_H_MM)>>

(* the command lines of the model: the defaults, with every grid up to      *)
(* MaxCols x MaxRows, both modes, and a left margin of 5 or 10 mm           *)
MainArgs ==
    [match : Modes, cols : 0..MaxCols, rows : 1..MaxRows,
     cut_marks : BOOLEAN,
     card_w_mm : {63}, card_h_mm : {88},
     margin_left_mm : {5, 10}, margin_right_mm : {10},
     margin_top_mm : {10}, margin_bottom_mm : {10},
     gap_x_mm : {3}, gap_y_mm : {3}]

per_page == args.cols * args.rows
total == Len(pairs)
card_w == mm(args.card_w_mm)
card_h == mm(args.card_h_mm)

NewCanvas == [opened |-> TRUE, pages |-> <<>>, cur |-> <<>>, saved |-> FALSE]
NoCanvas == [opened |-> FALSE, pages |-> <<>>, cur |-> <<>>, saved |-> FALSE]

(* draw_image_fit: Image.open raises when the file does not decode;         *)
(* otherwise one drawImage lands on the current page.  The op records the   *)
(* file and the slot rectangle handed in; the letterbox rectangle inside    *)
(* the slot depends on the pixel size of the image and is not modelled.     *)
draw_image_fit(c, img_path, xy2, w, h) ==
    [c EXCEPT !.cur = Append(@, [op |-> "image", img |-> img_path,
                                  xy2 |-> xy2, w |-> w, h |-> h])]

(* draw_cut_marks: the crosshairs of the given slots, as one op *)
draw_cut_marks(c, marked, w, h) ==
    [c EXCEPT !.cur = Append(@, [op |-> "marks", img |-> NoPath,
                                  xy2 |-> marked, w |-> w, h |-> h])]

(* c.showPage() *)
showPage(c) == [c EXCEPT !.pages = Append(@, c.cur), !.cur = <<>>]

(* c.save() *)
save(c) == [c EXCEPT !.saved = TRUE]

(* Python's seq[lo:hi] for 0 <= lo <= hi *)
slice(seq, lo, hi) ==
    SubSeq(seq, lo + 1, IF hi < Len(seq) THEN hi ELSE Len(seq))

(* faulty variant: the emptiness check never fires *)
no_images_unchecked(files) == FALSE

(* `if not fronts` / `if not backs` *)
no_images(files) == files = <<>>

(* faulty variant: the loop ends one batch early *)
range_exhausted_early(at, stop, step) == at + step >= stop

(* range(0, total, per_page) has no further value *)
range_exhausted(at, stop, step) == at >= stop

(* faulty variant: the back page is mirrored, the last slot first *)
back_slot_mirrored(k) == slots[Len(slots) - k]

(* slots[i] in the loop over the backs *)
back_slot(k) == slots[k + 1]

(* slots[i] in the loop over the fronts *)
front_slot(k) == slots[k + 1]

Fail(e) ==
    /\ pc' = "failed"
    /\ err' = e

PInit ==
    /\ args \in MainArgs
    /\ pc = "check_dirs"
    /\ isdir = <<FALSE, FALSE>>
    /\ fronts = <<>>
    /\ backs = <<>>
    /\ pairs = <<>>
    /\ slots = <<>>
    /\ canvas = NoCanvas
    /\ start = 0
    /\ batch = <<>>
    /\ drawn = 0
    /\ err = ""

(* the two is_dir() checks *)
CheckDirs ==
    /\ pc = "check_dirs"
    /\ \E f_is_dir \in BOOLEAN, b_is_dir \in BOOLEAN :
        /\ isdir' = <<f_is_dir, b_is_dir>>
        /\ IF ~f_is_dir \/ ~b_is_dir
           THEN Fail("DirectoryNotFound")
           ELSE pc' = "list_images" /\ err' = err
    /\ UNCHANGED <<args, fronts, backs, pairs, slots, canvas, start, batch,
                   drawn, gvars, mvars>>

(* both list_images calls and the two emptiness checks *)
ListImages ==
    /\ pc = "list_images"
    /\ \E fronts_entries \in SUBSET Entries, backs_entries \in SUBSET Entries :
        /\ fronts' = list_images(Folder("fronts", fronts_entries))
        /\ backs' = list_images(Folder("backs", backs_entries))
    /\ IF no_images(fronts') \/ no_images(backs')
       THEN Fail("EmptyImageSet")
       ELSE pc' = "match_pairs" /\ err' = err
    /\ UNCHANGED <<args, isdir, pairs, slots, canvas, start, batch, drawn,
                   gvars, mvars>>

MatchPairs ==
    /\ pc = "match_pairs"
    /\ LET r == match_pairs(fronts, backs, args.match)
       IN  IF r.kind = "error"
           THEN Fail(r.err) /\ pairs' = pairs
           ELSE pairs' = r.pairs /\ pc' = "positions_grid" /\ err' = err
    /\ UNCHANGED <<args, isdir, fronts, backs, slots, canvas, start, batch,
                   drawn, gvars, mvars>>

Layout ==
    /\ pc = "positions_grid"
    /\ LET r == positions_grid(A4[1], A4[2], card_w, card_h,
                               args.cols, args.rows,
                               mm(args.margin_left_mm),
                               mm(args.margin_right_mm),
                               mm(args.margin_top_mm),
                               mm(args.margin_bottom_mm),
                               mm(args.gap_x_mm), mm(args.gap_y_mm))
       IN  IF r.kind = "error"
           THEN Fail(r.err) /\ slots' = slots
           ELSE slots' = r.pos /\ pc' = "canvas" /\ err' = err
    /\ UNCHANGED <<args, isdir, fronts, backs, pairs, canvas, start, batch,
                   drawn, gvars, mvars>>

(* canvas.Canvas(...) and the entry of the batch loop; a step of 0 makes    *)
(* range() raise                                                            *)
OpenCanvas ==
    /\ pc = "canvas"
    /\ canvas' = NewCanvas
    /\ start' = 0
    /\ IF per_page = 0
       THEN Fail("ValueError")
       ELSE pc' = "batch" /\ err' = err
    /\ UNCHANGED <<args, isdir, fronts, backs, pairs, slots, batch, drawn,
                   gvars, mvars>>

(* for start in range(0, total, per_page):                                  *)
(*     batch = pairs[start:start + per_page]                                *)
BeginBatch ==
    /\ pc = "batch"
    /\ ~range_exhausted(start, total, per_page)
    /\ batch' = slice(pairs, start, start + per_page)
    /\ drawn' = 0
    /\ pc' = "fronts"
    /\ UNCHANGED <<args, isdir, fronts, backs, pairs, slots, canvas, start,
                   err, gvars, mvars>>

(* one iteration of the loop over the fronts of the batch *)
DrawFront ==
    /\ pc = "fronts"
    /\ drawn < Len(batch)
    /\ \E decodes \in BOOLEAN :
        IF drawn >= Len(slots)
        THEN Fail("IndexError") /\ UNCHANGED <<canvas, drawn>>
        ELSE IF ~decodes
        THEN Fail("ImageDecodeError") /\ UNCHANGED <<canvas, drawn>>
        ELSE /\ canvas' = draw_image_fit(canvas, batch[drawn + 1][1],
                                         front_slot(drawn), card_w, card_h)
             /\ drawn' = drawn + 1
             /\ UNCHANGED <<pc, err>>
    /\ UNCHANGED <<args, isdir, fronts, backs, pairs, slots, start, batch,
                   gvars, mvars>>

(* the cut marks of the front page and its showPage *)
ShowFrontPage ==
    /\ pc = "fronts"
    /\ drawn = Len(batch)
    /\ canvas' = showPage(IF args.cut_marks
                          THEN draw_cut_marks(canvas,
                                   slice(slots, 0, Len(batch)), card_w, card_h)
                          ELSE canvas)
    /\ drawn' = 0
    /\ pc' = "backs"
    /\ UNCHANGED <<args, isdir, fronts, backs, pairs, slots, start, batch,
                   err, gvars, mvars>>

(* one iteration of the loop over the backs of the batch *)
DrawBack ==
    /\ pc = "backs"
    /\ drawn < Len(batch)
    /\ \E decodes \in BOOLEAN :
        IF drawn >= Len(slots)
        THEN Fail("IndexError") /\ UNCHANGED <<canvas, drawn>>
        ELSE IF ~decodes
        THEN Fail("ImageDecodeError") /\ UNCHANGED <<canvas, drawn>>
        ELSE /\ canvas' = draw_image_fit(canvas, batch[drawn + 1][2],
                                         back_slot(drawn), card_w, card_h)
             /\ drawn' = drawn + 1
             /\ UNCHANGED <<pc, err>>
    /\ UNCHANGED <<args, isdir, fronts, backs, pairs, slots, start, batch,
                   gvars, mvars>>

(* the cut marks of the back page, its showPage, and the next loop value *)
ShowBackPage ==
    /\ pc = "backs"
    /\ drawn = Len(batch)
    /\ canvas' = showPage(IF args.cut_marks
                          THEN draw_cut_marks(canvas,
                                   slice(slots, 0, Len(batch)), card_w, card_h)
                          ELSE canvas)
    /\ start' = start + per_page
    /\ pc' = "batch"
    /\ UNCHANGED <<args, isdir, fronts, backs, pairs, slots, batch, drawn,
                   err, gvars, mvars>>

(* c.save() after the loop *)
Save ==
    /\ pc = "batch"
    /\ range_exhausted(start, total, per_page)
    /\ canvas' = save(canvas)
    /\ pc' = "done"
    /\ UNCHANGED <<args, isdir, fronts, backs, pairs, slots, start, batch,
                   drawn, err, gvars, mvars>>

Next ==
    \/ CheckDirs
    \/ ListImages
    \/ MatchPairs
    \/ Layout
    \/ OpenCanvas
    \/ BeginBatch
    \/ DrawFront
    \/ ShowFrontPage
    \/ DrawBack
    \/ ShowBackPage
    \/ Save

----------------------------------------------------------------------------
(* Specifications: the program, and the two harnesses of its pure functions. *)
(* In each, the variables of the other two rest at fixed values.             *)

GIdle ==
    /\ gargs = [page_w |-> 0, page_h |-> 0, card_w |-> 0, card_h |-> 0,
                cols |-> 0, rows |-> 0,
                margin_left |-> 0, margin_right |-> 0,
                margin_top |-> 0, margin_bottom |-> 0,
                gap_x |-> 0, gap_y |-> 0]
    /\ gres = NoResult

MIdle ==
    /\ mfolders = [fronts |-> {}, backs |-> {}]
    /\ mmode = "by_name"
    /\ mfronts = <<>>
    /\ mbacks = <<>>
    /\ mres = NoMatch
    /\ mpc = "idle"

PIdle ==
    /\ args = [match |-> "by_name", cols |-> 0, rows |-> 0,
               cut_marks |-> FALSE, card_w_mm |-> 0, card_h_mm |-> 0,
               margin_left_mm |-> 0, margin_right_mm |-> 0,
               margin_top_mm |-> 0, margin_bottom_mm |-> 0,
               gap_x_mm |-> 0, gap_y_mm |-> 0]
    /\ pc = "idle"
    /\ isdir = <<FALSE, FALSE>>
    /\ fronts = <<>>
    /\ backs = <<>>
    /\ pairs = <<>>
    /\ slots = <<>>
    /\ canvas = NoCanvas
    /\ start = 0
    /\ batch = <<>>
    /\ drawn = 0
    /\ err = ""

Init == PInit /\ GIdle /\ MIdle

Spec == Init /\ [][Next]_vars

InitGrid == GInit /\ MIdle /\ PIdle

SpecGrid == InitGrid /\ [][GNext]_vars

InitMatch == MInit /\ GIdle /\ PIdle

SpecMatch == InitMatch /\ [][MNext]_vars

----------------------------------------------------------------------------
(* Properties of positions_grid, stated over the grid harness.  The extents *)
(* are recomputed here from the arguments, independently of the operators   *)
(* above.                                                                   *)

GUsableW == gargs.page_w - gargs.margin_left - gargs.margin_right
GUsableH == gargs.page_h - gargs.margin_top - gargs.margin_bottom
GNeedW == gargs.cols * gargs.card_w + (gargs.cols - 1) * gargs.gap_x
GNeedH == gargs.rows * gargs.card_h + (gargs.rows - 1) * gargs.gap_y
GCalled == gres.kind # "none"
GSlots == gres.kind = "slots"
GPos == gres.pos
GIdx == 1..Len(GPos)

(* two slots' card rectangles share interior points *)
GOverlap(i, j) ==
    /\ GPos[i][1] < GPos[j][1] + 2 * gargs.card_w
    /\ GPos[j][1] < GPos[i][1] + 2 * gargs.card_w
    /\ GPos[i][2] < GPos[j][2] + 2 * gargs.card_h
    /\ GPos[j][2] < GPos[i][2] + 2 * gargs.card_h

(* a slot rectangle lies in the usable area, within the tolerance *)
GInside(i) ==
    /\ GPos[i][1] >= 2 * gargs.margin_left - 2 * Tol
    /\ GPos[i][1] + 2 * gargs.card_w
          <= 2 * (gargs.page_w - gargs.margin_right) + 2 * Tol
    /\ GPos[i][2] >= 2 * gargs.margin_bottom - 2 * Tol
    /\ GPos[i][2] + 2 * gargs.card_h
          <= 2 * (gargs.page_h - gargs.margin_top) + 2 * Tol

GLayoutGood ==
    /\ GSlots
    /\ Len(GPos) = gargs.cols * gargs.rows
    /\ \A i, j \in GIdx : i # j => ~GOverlap(i, j)
    /\ \A i \in GIdx : GInside(i)

(* C1 as stated: for every page size, positive card size, cols >= 1,       *)
(* rows >= 1 and ARBITRARY margins and gaps with needed width <= usable     *)
(* width and needed height <= usable height, positions_grid returns exactly *)
(* cols*rows slots, no two of which overlap in their interiors, all inside  *)
(* the usable area within the tolerance.                                    *)
C1_AnyGaps ==
    (GCalled /\ GNeedW <= GUsableW /\ GNeedH <= GUsableH) => GLayoutGood

(* C1 amended: the same, for gaps that are not negative.                   *)
C1_NonNegativeGaps ==
    (/\ GCalled
     /\ GNeedW <= GUsableW /\ GNeedH <= GUsableH
     /\ gargs.gap_x >= 0 /\ gargs.gap_y >= 0) => GLayoutGood

C1_Witness ==
    /\ GSlots
    /\ GNeedW <= GUsableW /\ GNeedH <= GUsableH
    /\ gargs.gap_x > 0 /\ gargs.gap_y >= 0
    /\ gargs.cols >= 2 /\ gargs.rows >= 2
    /\ gargs.margin_left # gargs.margin_right

GExceeds(a) ==
    \/ a.cols * a.card_w + (a.cols - 1) * a.gap_x
          > a.page_w - a.margin_left - a.margin_right + Tol
    \/ a.rows * a.card_h + (a.rows - 1) * a.gap_y
          > a.page_h - a.margin_top - a.margin_bottom + Tol

(* C4: every call of positions_grid fails with the layout-overflow error    *)
(* exactly when the needed width exceeds the usable width or the needed     *)
(* height exceeds the usable height by more than the tolerance, and returns *)
(* slots otherwise; this holds of the first call and of every call made     *)
(* after one margin, gap or card dimension was raised or lowered, so a      *)
(* parameter raised past the threshold makes the call fail and lowering it  *)
(* back makes the call succeed.                                             *)
C4_OverflowExactly ==
    GCalled =>
        /\ (gres.kind = "error" /\ gres.err = "LayoutOverflow")
              <=> GExceeds(gargs)
        /\ GSlots <=> ~GExceeds(gargs)

(* a failed call one unit past the threshold: lowering one parameter by one *)
(* unit gives arguments that fit                                            *)
C4_Witness ==
    /\ gres.kind = "error"
    /\ GExceeds(gargs)
    /\ \E p \in AdjustParams :
          /\ [gargs EXCEPT ![p] = @ - 1] \in GridArgs
          /\ ~GExceeds([gargs EXCEPT ![p] = @ - 1])

GMinX2 == CHOOSE x \in {GPos[i][1] : i \in GIdx} :
              \A i \in GIdx : x <= GPos[i][1]
GMaxX2 == CHOOSE x \in {GPos[i][1] : i \in GIdx} :
              \A i \in GIdx : x >= GPos[i][1]
GAbs(n) == IF n < 0 THEN -n ELSE n

(* C5: for every feasible input the slots are centered in the usable area:  *)
(* the space from the left margin line to the leftmost slot edge equals the *)
(* space from the rightmost slot edge to the right margin line, and the     *)
(* space from the top margin line to the top edge of row 0 equals the space *)
(* from the bottom edge of the last row to the bottom margin line, each     *)
(* pair within the tolerance, also with unequal margins.                    *)
C5_Centered ==
    GSlots =>
        LET left2 == GMinX2 - 2 * gargs.margin_left
            right2 == 2 * (gargs.page_w - gargs.margin_right)
                         - (GMaxX2 + 2 * gargs.card_w)
            top2 == 2 * (gargs.page_h - gargs.margin_top)
                         - (GPos[1][2] + 2 * gargs.card_h)
            bottom2 == GPos[Len(GPos)][2] - 2 * gargs.margin_bottom
        IN  /\ Len(GPos) >= 1
            /\ GAbs(left2 - right2) <= 2 * Tol
            /\ GAbs(top2 - bottom2) <= 2 * Tol

C5_Witness ==
    /\ GSlots
    /\ gargs.margin_left # gargs.margin_right
    /\ gargs.margin_top # gargs.margin_bottom
    /\ GUsableW > GNeedW /\ GUsableH > GNeedH
    /\ gargs.cols >= 2 /\ gargs.rows >= 2

GStartX2 == 2 * gargs.margin_left + (GUsableW - GNeedW)
GStartYTop2 == 2 * (gargs.page_h - gargs.margin_top) - (GUsableH - GNeedH)
GAt(r, c) == GPos[r * gargs.cols + c + 1]

(* the slot of row r, column c sits at index r*cols + c, at                 *)
(* x = startX + c*(card_w + gap_x), y = startYTop - r*(card_h + gap_y)      *)
(* - card_h                                                                 *)
GRowMajor ==
    /\ Len(GPos) = gargs.rows * gargs.cols
    /\ \A r \in 0..(gargs.rows - 1) : \A c \in 0..(gargs.cols - 1) :
          GAt(r, c) =
              <<GStartX2 + 2 * c * (gargs.card_w + gargs.gap_x),
                GStartYTop2 - 2 * r * (gargs.card_h + gargs.gap_y)
                    - 2 * gargs.card_h>>

GXIncreasing ==
    \A r \in 0..(gargs.rows - 1) : \A c \in 0..(gargs.cols - 2) :
        GAt(r, c)[1] < GAt(r, c + 1)[1]

GRowsDescend ==
    \A r \in 0..(gargs.rows - 2) : \A c, d \in 0..(gargs.cols - 1) :
        GAt(r + 1, d)[2] < GAt(r, c)[2]

(* C10 as stated: the slots are in row-major order, top row first, at the   *)
(* positions of the formula, so that within a row x is strictly increasing  *)
(* with the index and every slot of row r+1 lies lower than every slot of   *)
(* row r.                                                                   *)
C10_AlwaysOrdered ==
    GSlots => (GRowMajor /\ GXIncreasing /\ GRowsDescend)

(* C10 amended: the slots are in row-major order at the positions of the    *)
(* formula; x is strictly increasing within a row when card_w + gap_x > 0,  *)
(* and every slot of row r+1 lies lower than every slot of row r when       *)
(* card_h + gap_y > 0.                                                      *)
C10_RowMajor ==
    GSlots =>
        /\ GRowMajor
        /\ (gargs.card_w + gargs.gap_x > 0) => GXIncreasing
        /\ (gargs.card_h + gargs.gap_y > 0) => GRowsDescend

C10_Witness ==
    /\ GSlots
    /\ gargs.cols >= 2 /\ gargs.rows >= 2
    /\ gargs.card_w # gargs.card_h
    /\ gargs.card_w + gargs.gap_x > 0 /\ gargs.card_h + gargs.gap_y > 0
    /\ GAt(1, 0)[2] < GAt(0, 1)[2]
    /\ GAt(0, 0)[1] < GAt(0, 1)[1]

----------------------------------------------------------------------------
(* Properties of match_pairs, stated over the match harness *)

MDone == mpc = "done"
MFrontIdx == 1..Len(mfronts)
MBackIdx == 1..Len(mbacks)
MHasBack(f) == \E j \in MBackIdx : mbacks[j].stem = f.stem
MLacksBack(f) == ~MHasBack(f)
MNames(seq) == [k \in 1..Len(seq) |-> seq[k].stem \o seq[k].suffix]

(* C6: match_pairs in by-name mode: if every front's stem is the stem of    *)
(* some back, it returns one pair per front, in the fronts' order, each     *)
(* pairing the front with a back of identical stem; otherwise it fails,     *)
(* returns no pairs, and the failure lists the filename of every front      *)
(* without a same-stem back, in the fronts' order.                          *)
C6_ByName ==
    (MDone /\ mmode = "by_name") =>
        IF \A i \in MFrontIdx : MHasBack(mfronts[i])
        THEN /\ mres.kind = "pairs"
             /\ Len(mres.pairs) = Len(mfronts)
             /\ \A i \in MFrontIdx :
                   /\ mres.pairs[i][1] = mfronts[i]
                   /\ \E j \in MBackIdx : mres.pairs[i][2] = mbacks[j]
                   /\ mres.pairs[i][2].stem = mfronts[i].stem
        ELSE /\ mres.kind = "error"
             /\ mres.err = "MissingBackImages"
             /\ mres.pairs = <<>>
             /\ mres.missing = MNames(SelectSeq(mfronts, MLacksBack))

C6_Witness ==
    /\ MDone /\ mmode = "by_name"
    /\ mres.kind = "error"
    /\ Len(mres.missing) >= 2
    /\ \E i \in MFrontIdx : MHasBack(mfronts[i])

(* C8: match_pairs in by-order mode fails with the count-mismatch error,    *)
(* reporting both counts, if and only if the two lists differ in length;    *)
(* with equal lengths it returns len(fronts) pairs, pair i being            *)
(* (fronts[i], backs[i]), whatever the filenames.                           *)
C8_ByOrder ==
    (MDone /\ mmode = "by_order") =>
        /\ mres.kind = "error" <=> Len(mfronts) # Len(mbacks)
        /\ mres.kind = "error" =>
              /\ mres.err = "CountMismatch"
              /\ mres.counts = <<Len(mfronts), Len(mbacks)>>
        /\ Len(mfronts) = Len(mbacks) =>
              /\ mres.kind = "pairs"
              /\ Len(mres.pairs) = Len(mfronts)
              /\ \A i \in MFrontIdx : mres.pairs[i] = <<mfronts[i], mbacks[i]>>

C8_Witness ==
    /\ MDone /\ mmode = "by_order"
    /\ mres.kind = "pairs"
    /\ Len(mres.pairs) >= 2
    /\ \E i \in MFrontIdx : mres.pairs[i][1].stem # mres.pairs[i][2].stem

----------------------------------------------------------------------------
(* Properties of main *)

PMatched ==
    pc \in {"positions_grid", "canvas", "batch", "fronts", "backs", "done"}
PPairIdx == 1..Len(pairs)

(* C7: whenever match_pairs succeeds, in either mode, the pairs are a 1:1   *)
(* correspondence of the fronts and the backs: every front is in exactly    *)
(* one pair and every back is in exactly one pair.                          *)
C7_OneToOne ==
    PMatched =>
        /\ \A i \in 1..Len(fronts) :
              Cardinality({k \in PPairIdx : pairs[k][1] = fronts[i]}) = 1
        /\ \A j \in 1..Len(backs) :
              Cardinality({k \in PPairIdx : pairs[k][2] = backs[j]}) = 1

PCeilDiv(n, d) == (n + d - 1) \div d
PIsImage(o) == o.op = "image"
PImages(page) == SelectSeq(page, PIsImage)
PMin(a, b) == IF a < b THEN a ELSE b
PPerPage == args.cols * args.rows
PBatches == PCeilDiv(Len(pairs), PPerPage)

(* the images of batch b (from 0) are on pages 2b+1 and 2b+2: the fronts    *)
(* of its pairs, in order, on the first, the backs on the second            *)
PBatchOnPages(b) ==
    LET lo == b * PPerPage
        n == PMin(PPerPage, Len(pairs) - lo)
        f_imgs == PImages(canvas.pages[2 * b + 1])
        b_imgs == PImages(canvas.pages[2 * b + 2])
    IN  /\ Len(f_imgs) = n
        /\ Len(b_imgs) = n
        /\ b < PBatches - 1 => n = PPerPage
        /\ \A j \in 1..n :
              /\ f_imgs[j].img = pairs[lo + j][1]
              /\ b_imgs[j].img = pairs[lo + j][2]

(* C2: for N >= 1 pairs and perPage = cols*rows >= 1, the document that is  *)
(* saved holds exactly 2*ceil(N/perPage) finalized pages, page 2b+1 the     *)
(* front page and page 2b+2 the back page of batch b, batches in            *)
(* increasing order and all but the last of exactly perPage pairs.          *)
C2_Pages ==
    (canvas.saved /\ Len(pairs) >= 1 /\ PPerPage >= 1) =>
        /\ Len(canvas.pages) = 2 * PBatches
        /\ \A b \in 0..(PBatches - 1) : PBatchOnPages(b)

C2_Witness ==
    /\ canvas.saved
    /\ PPerPage >= 2
    /\ PBatches >= 2
    /\ Len(pairs) % PPerPage # 0

(* the image ops of a page drawn at the slot of index s (from 0) *)
PAtSlot(page, s) ==
    {j \in 1..Len(page) : page[j].op = "image" /\ page[j].xy2 = slots[s + 1]}

(* the number of image ops on the first n pages *)
RECURSIVE PImageCount(_)
PImageCount(n) ==
    IF n = 0 THEN 0
    ELSE Len(PImages(canvas.pages[n])) + PImageCount(n - 1)

(* C3: in the saved document, for every pair index k the front image of     *)
(* pair k is drawn once, on the front page of batch k div perPage at slot   *)
(* k mod perPage, and its back image once, on the back page of that batch   *)
(* at the same slot; nothing else is drawn at that slot on those two pages, *)
(* and the document holds no other image.                                   *)
C3_SlotAssignment ==
    canvas.saved =>
        /\ \A k \in 0..(Len(pairs) - 1) :
              LET fp == canvas.pages[2 * (k \div PPerPage) + 1]
                  bp == canvas.pages[2 * (k \div PPerPage) + 2]
                  s == k % PPerPage
              IN  /\ Cardinality(PAtSlot(fp, s)) = 1
                  /\ \A j \in PAtSlot(fp, s) : fp[j].img = pairs[k + 1][1]
                  /\ Cardinality(PAtSlot(bp, s)) = 1
                  /\ \A j \in PAtSlot(bp, s) : bp[j].img = pairs[k + 1][2]
        /\ PImageCount(Len(canvas.pages)) = 2 * Len(pairs)

C3_Witness ==
    /\ canvas.saved
    /\ PPerPage >= 2
    /\ Len(pairs) > PPerPage
    /\ Len(PImages(canvas.pages[3])) >= 1

PChecksPassed ==
    /\ isdir = <<TRUE, TRUE>>
    /\ fronts # <<>> /\ backs # <<>>
    /\ Len(pairs) = Len(fronts)
    /\ args.match = "by_order" => Len(fronts) = Len(backs)
    /\ args.match = "by_name" =>
          \A i \in 1..Len(fronts) :
              \E j \in 1..Len(backs) : backs[j].stem = fronts[i].stem
    /\ args.cols * args.card_w_mm + (args.cols - 1) * args.gap_x_mm
          <= A4_W_MM - args.margin_left_mm - args.margin_right_mm
    /\ args.rows * args.card_h_mm + (args.rows - 1) * args.gap_y_mm
          <= A4_H_MM - args.margin_top_mm - args.margin_bottom_mm
    /\ Len(slots) = PPerPage

(* C9: the output document is opened only after the directory checks, the   *)
(* emptiness checks, the pair matching and the layout feasibility check     *)
(* have succeeded; it is saved only after every front and back page of      *)
(* every batch was emitted; a run that failed, at whatever step, has no     *)
(* saved document.                                                          *)
C9_NoPartialDocument ==
    /\ canvas.opened => PChecksPassed
    /\ canvas.saved =>
          /\ pc = "done" /\ err = ""
          /\ canvas.cur = <<>>
          /\ Len(canvas.pages) = 2 * PBatches
    /\ pc = "failed" <=> err # ""
    /\ pc = "failed" => ~canvas.saved

C9_Witness ==
    /\ pc = "failed"
    /\ err = "ImageDecodeError"
    /\ canvas.opened
    /\ Len(canvas.pages) >= 2
    /\ canvas.cur # <<>>
    /\ ~canvas.saved

=============================================================================
